---- MODULE Spec2Model ----
(***************************************************************************)
(* The CRM MCP server of src/main.py: the POST / JSON-RPC dispatcher       *)
(* (handle_mcp_request), the record filter (get_filtered_data) and the     *)
(* text formatter (format_lead_response) over a Google Sheets record store.*)
(*                                                                         *)
(* Representation.  A JSON / Python value that the code inspects is a      *)
(* tagged record [t, v]: Str(<<chars>>), Num(n), Null, Obj(function),      *)
(* Arr.  Text that the code lower-cases or searches is a sequence of       *)
(* one-character strings.  Method names, ids and tool names are only       *)
(* compared and echoed, so they are TLA+ strings, with None for Python's   *)
(* None.  A dict is a function whose DOMAIN is the set of its keys.        *)
(***************************************************************************)
EXTENDS Integers, Sequences, FiniteSets, TLC

VARIABLES
    USE_GOOGLE_SHEETS,  \* module global set at start-up (lines 28-44)
    sheet,              \* the worksheet: sequence of records, in sheet order
    body,               \* the last request received: [json, obj]
    upstream,           \* whether the Sheets API calls of the last request succeeded
    response,           \* the last response written, NoResponse before any
    calls,              \* the Sheets API calls made while serving the last request
    lastCall            \* the last get_filtered_data call: [called, filters, raised, rows]

vars == <<USE_GOOGLE_SHEETS, sheet, body, upstream, response, calls, lastCall>>

----------------------------------------------------------------------------
(* Python values *)

None == "<None>"

Str(s) == [t |-> "str", v |-> s]
Num(n) == [t |-> "int", v |-> n]
Null == [t |-> "null", v |-> <<>>]
Obj(f) == [t |-> "object", v |-> f]
Arr == [t |-> "array", v |-> <<1>>]

EmptyDict == <<>>

\* dict.get(key, default)
Get(d, key, default) == IF key \in DOMAIN d THEN d[key] ELSE default

\* bool(value)
Truthy(value) ==
    CASE value.t = "str" -> value.v # <<>>
      [] value.t = "int" -> value.v # 0
      [] value.t = "null" -> FALSE
      [] value.t = "object" -> DOMAIN value.v # {}
      [] value.t = "array" -> value.v # <<>>

\* str.lower() on one character
LowerChar(c) ==
    CASE c = "A" -> "a"
      [] c = "B" -> "b"
      [] c = "C" -> "c"
      [] c = "S" -> "s"
      [] c = "P" -> "p"
      [] OTHER -> c

\* str.lower()
lower(s) == [i \in 1..Len(s) |-> LowerChar(s[i])]

\* the Python operator  x in y  on two strings
IsSubstring(x, y) ==
    \E i \in 0..(Len(y) - Len(x)) : SubSeq(y, i + 1, i + Len(x)) = x

Digit(n) == CASE n = 0 -> "0" [] n = 1 -> "1" [] n = 2 -> "2" [] n = 3 -> "3"
              [] n = 4 -> "4" [] n = 5 -> "5" [] n = 6 -> "6" [] n = 7 -> "7"
              [] n = 8 -> "8" [] n = 9 -> "9"

RECURSIVE Digits(_)
Digits(n) == IF n < 10 THEN <<Digit(n)>> ELSE Digits(n \div 10) \o <<Digit(n % 10)>>

\* str(value) of a cell value
str(value) ==
    CASE value.t = "str" -> value.v
      [] value.t = "int" -> IF value.v < 0 THEN <<"-">> \o Digits(0 - value.v)
                                           ELSE Digits(value.v)
      [] value.t = "null" -> <<"N", "o", "n", "e">>

\* str(x) of a method or tool name inside an f-string
PyStr(x) == IF x = None THEN "None" ELSE x

Min(a, b) == IF a < b THEN a ELSE b

----------------------------------------------------------------------------
(* get_filtered_data, lines 58-90 *)

EmptyStr == Str(<<>>)

\* ValueInField without lower-casing the filter value
ValueInFieldAsTyped(value, row, key) ==
    IsSubstring(value.v, lower(str(Get(row, key, EmptyStr))))

\* value.lower() in str(row.get(key, "")).lower()     (lines 79-80 and 84)
ValueInField(value, row, key) ==
    IsSubstring(lower(value.v), lower(str(Get(row, key, EmptyStr))))

\* The inner loop (lines 75-86) over the items of the filters dict, in
\* insertion order.  "raise" is the AttributeError of value.lower() on a
\* value that is not a string.
RECURSIVE RowMatch(_, _)
RowMatch(row, items) ==
    IF items = <<>> THEN "match"
    ELSE LET key == Head(items)[1]
             value == Head(items)[2]
         IN  IF Truthy(value)
             THEN IF key = "Providers" /\ Truthy(value)
                  THEN IF value.t # "str" THEN "raise"
                       ELSE IF ~ValueInField(value, row, key) THEN "nomatch"
                       ELSE RowMatch(row, Tail(items))
                  ELSE IF value.t # "str" THEN "raise"
                       ELSE IF ~ValueInField(value, row, key) THEN "nomatch"
                       ELSE RowMatch(row, Tail(items))
             ELSE RowMatch(row, Tail(items))

\* The outer loop (lines 72-88): it visits the rows in order and appends
\* the matching ones to filtered; it raises when the inner loop raises on
\* some row, since no row ends the loop early.
FilterRows(rows, items) ==
    IF \E i \in 1..Len(rows) : RowMatch(rows[i], items) = "raise"
    THEN [raised |-> TRUE, rows |-> <<>>]
    ELSE [raised |-> FALSE,
          rows |-> SelectSeq(rows, LAMBDA row : RowMatch(row, items) = "match")]

\* get_filtered_data(filters) with the globals it reads: USE_GOOGLE_SHEETS
\* (client is set exactly when it is, lines 39-40), the worksheet, and
\* whether the Sheets API answers (up).  calls: the API calls it made.
Fetched(r, cs) == [raised |-> r.raised, rows |-> r.rows, calls |-> cs]

get_filtered_data(filters, use, sh, up) ==
    IF use
    THEN IF up
         THEN Fetched(FilterRows(sh, filters), {"open", "get_all_records"})
         ELSE [raised |-> FALSE, rows |-> <<>>, calls |-> {"open"}]
    ELSE [raised |-> FALSE, rows |-> <<>>, calls |-> {}]

----------------------------------------------------------------------------
(* format_lead_response, lines 92-114 *)

NA == <<"N", "/", "A">>

\* f"{lead.get(field, 'N/A')}"
Render(lead, field) == IF field \in DOMAIN lead THEN str(lead[field]) ELSE NA

LeadFields == <<"TeamName", "TagId", "Domain", "Platform", "Status", "BillingType",
                "Type", "CartRecoveryMode", "Revenue", "PotentialRevenue", "CreatedAt">>

\* one paragraph (lines 100-112): the rendered fields in the declared
\* order, then Providers when it is truthy
FormatLead(lead) ==
    [i \in 1..Len(LeadFields) |-> <<LeadFields[i], Render(lead, LeadFields[i])>>]
    \o (IF Truthy(Get(lead, "Providers", Null))
        THEN << <<"Providers", Render(lead, "Providers")>> >>
        ELSE <<>>)

\* A text: the literal part, the count interpolated into it, the paragraphs.
Text(msg, count, items) == [msg |-> msg, count |-> count, items |-> items]

NoLeadsText ==
    Text("No leads found matching the specified criteria. Please ensure the Google Sheets connection is configured and contains data.", 0, <<>>)

\* format_lead_response without the early return of lines 94-95
format_lead_response_no_early_return(leads) ==
    Text("Found {n} leads:", Len(leads), [i \in 1..Len(leads) |-> FormatLead(leads[i])])

format_lead_response(leads) ==
    IF leads = <<>> THEN NoLeadsText
    ELSE Text("Found {n} leads:", Len(leads),
              [i \in 1..Len(leads) |-> FormatLead(leads[i])])

----------------------------------------------------------------------------
(* Responses *)

JSONResponse(content, status_code) == [status |-> status_code, content |-> content]

\* no response has been written
NoResponse == [status |-> 0, content |-> EmptyDict]

TextResult(text) == [content |-> << [type |-> "text", text |-> text] >>]

\* What one run of the handler's try block does: either it returns a
\* response or it raises exc; sheet is the worksheet afterwards, calls the
\* Sheets API calls made, lastCall the get_filtered_data call made, if any.
NoCall == [called |-> FALSE, filters |-> <<>>, raised |-> FALSE, rows |-> <<>>]

Returns(resp, sh, cs, lc) ==
    [raised |-> FALSE, exc |-> "", response |-> resp, sheet |-> sh, calls |-> cs,
     lastCall |-> lc]

Raises(exc, sh, cs, lc) ==
    [raised |-> TRUE, exc |-> exc, response |-> NoResponse, sheet |-> sh, calls |-> cs,
     lastCall |-> lc]

CallOf(filters, r) ==
    [called |-> TRUE, filters |-> filters, raised |-> r.raised, rows |-> r.rows]

----------------------------------------------------------------------------
(* initialize, notifications/initialized, tools/list: lines 190-340 *)

InitializeResult ==
    [protocolVersion |-> "2025-06-18",
     capabilities |-> [tools |-> EmptyDict],
     serverInfo |-> [name |-> "crm-mcp-server", version |-> "7.0.0"]]

\* InitializeResponse announcing the configured store as a capability
InitializeResponseWithResources(request_id) ==
    JSONResponse([jsonrpc |-> "2.0", id |-> request_id,
                  result |-> [InitializeResult EXCEPT
                                !.capabilities = [tools |-> EmptyDict,
                                                  resources |-> EmptyDict]]], 200)

InitializeResponse(request_id) ==
    JSONResponse([jsonrpc |-> "2.0", id |-> request_id, result |-> InitializeResult], 200)

\* lines 213-219: the envelope has no id key
InitializedResponse ==
    JSONResponse([jsonrpc |-> "2.0",
                  result |-> [hint |-> "Tools available: get_crm_leads, add_crm_lead. Use tools/list to discover them.",
                              tools_ready |-> TRUE]], 200)

\* ToolCatalogue with the two tools the hint of line 216 names
ToolCatalogueOfHint ==
    << [name |-> "get_crm_leads",
        properties |-> {"platform", "billingtype", "type", "cartrecoverymode",
                        "providers", "domain", "limit"},
        required |-> {}],
       [name |-> "add_crm_lead",
        properties |-> {"teamname", "domain", "platform", "billingtype", "type",
                        "contacts"},
        required |-> {"teamname", "domain", "platform"}] >>

\* the descriptors of lines 227-338: name, the keys of properties, required
ToolCatalogue ==
    << [name |-> "get_crm_leads",
        properties |-> {"platform", "billingtype", "type", "cartrecoverymode",
                        "providers", "domain", "limit"},
        required |-> {}],
       [name |-> "add_crm_lead",
        properties |-> {"teamname", "domain", "platform", "billingtype", "type",
                        "contacts"},
        required |-> {"teamname", "domain", "platform"}],
       [name |-> "export_crm_leads",
        properties |-> {"platform", "billingtype", "type", "cartrecoverymode",
                        "providers"},
        required |-> {}] >>

ToolsListResponse(request_id) ==
    JSONResponse([jsonrpc |-> "2.0", id |-> request_id,
                  result |-> [tools |-> ToolCatalogue]], 200)

----------------------------------------------------------------------------
(* tools/call get_crm_leads: lines 347-387 *)

\* argument name and the filter key it sets, in the order of lines 350-361
LeadFilterArgs ==
    << <<"platform", "Platform">>, <<"billingtype", "BillingType">>,
       <<"type", "Type">>, <<"cartrecoverymode", "CartRecoveryMode">>,
       <<"providers", "Providers">>, <<"domain", "Domain">> >>

\* the filters dict as its items in insertion order
BuildFilters(tool_args, argKeys) ==
    LET present == SelectSeq(argKeys, LAMBDA p : Truthy(Get(tool_args, p[1], Null)))
    IN  [i \in 1..Len(present) |-> <<present[i][2], tool_args[present[i][1]]>>]

DefaultLimit == 10

NotConnectedText ==
    Text("Google Sheets not connected! ... Currently returning empty results.", 0, <<>>)

\* leads[:limit]
Slice(leads, limit) == SubSeq(leads, 1, Min(limit, Len(leads)))

\* lines 367-368:  if limit and limit > 0: leads = leads[:limit]
\* [raised, leads]; comparing a non-empty string, list or dict with 0 is a
\* TypeError
ApplyLimit(leads, limit) ==
    IF ~Truthy(limit) THEN [raised |-> FALSE, leads |-> leads]
    ELSE IF limit.t # "int" THEN [raised |-> TRUE, leads |-> <<>>]
    ELSE IF limit.v > 0 THEN [raised |-> FALSE, leads |-> Slice(leads, limit.v)]
    ELSE [raised |-> FALSE, leads |-> leads]

\* lines 370-387, after the limit was applied
Listed(request_id, use, sh, cs, lc, cut) ==
    IF cut.raised THEN Raises("TypeError", sh, cs, lc)
    ELSE Returns(JSONResponse([jsonrpc |-> "2.0", id |-> request_id,
                               result |-> TextResult(IF ~use THEN NotConnectedText
                                                     ELSE format_lead_response(cut.leads))],
                              200),
                 sh, cs, lc)

\* lines 366-368, r being what get_filtered_data returned or raised
Filtered(request_id, filters, limit, use, sh, r) ==
    IF r.raised THEN Raises("AttributeError", sh, r.calls, CallOf(filters, r))
    ELSE Listed(request_id, use, sh, r.calls, CallOf(filters, r), ApplyLimit(r.rows, limit))

ListLeads(request_id, filters, limit, use, sh, up) ==
    Filtered(request_id, filters, limit, use, sh, get_filtered_data(filters, use, sh, up))

GetCrmLeads(request_id, tool_args, use, sh, up) ==
    IF tool_args.t # "object" THEN Raises("AttributeError", sh, {}, NoCall)
    ELSE ListLeads(request_id, BuildFilters(tool_args.v, LeadFilterArgs),
                   Get(tool_args.v, "limit", Num(DefaultLimit)), use, sh, up)

----------------------------------------------------------------------------
(* tools/call add_crm_lead: lines 389-464 *)

CannotAddText ==
    Text("Cannot add lead: Google Sheets not connected. Please configure GOOGLE_CLIENT_JSON environment variable.", 0, <<>>)

\* datetime.now().strftime(...): one fixed time stamp stands for the clock
Now == Str(<<"2", "0", "2", "5">>)

Zero == Str(<<"0">>)

\* new_row (lines 408-439) under the column names its comments give; the
\* columns no code path reads back (Versions, LastDeployment, OperationType,
\* Plugins, Purchases, LiveCarts and the counters after PotentialRevenue)
\* are left out.
NewRow(tool_args) ==
    [TagId |-> EmptyStr,
     TeamName |-> Get(tool_args, "teamname", EmptyStr),
     Domain |-> Get(tool_args, "domain", EmptyStr),
     CreatedAt |-> Now,
     Platform |-> Get(tool_args, "platform", EmptyStr),
     Status |-> Str(<<"A", "c", "t", "i", "v", "e">>),
     Providers |-> EmptyStr,
     BillingType |-> Get(tool_args, "billingtype", Str(<<"C", "O", "N", "T", "R", "A", "C", "T">>)),
     Type |-> Get(tool_args, "type", Str(<<"1", "P">>)),
     Contacts |-> Get(tool_args, "contacts", EmptyStr),
     CartRecoveryMode |-> Str(NA),
     Revenue |-> Zero,
     PotentialRevenue |-> Zero]

\* append_row writing the row above the first record
append_row_on_top(sh, new_row) == <<new_row>> \o sh

\* sheet.append_row(new_row)
append_row(sh, new_row) == Append(sh, new_row)

\* the text of line 450: the arguments as the f-string renders them
LeadAddedText(tool_args) ==
    Text("Lead Added Successfully!", 0,
         << <<"Team", str(Get(tool_args, "teamname", Null))>>,
            <<"Domain", str(Get(tool_args, "domain", Null))>>,
            <<"Platform", str(Get(tool_args, "platform", Null))>>,
            <<"Billing", str(Get(tool_args, "billingtype", Str(<<"C", "O", "N", "T", "R", "A", "C", "T">>)))>>,
            <<"Type", str(Get(tool_args, "type", Str(<<"1", "P">>)))>>,
            <<"Contacts", str(Get(tool_args, "contacts", Str(NA)))>> >>)

\* lines 455-464: the inner except answers with status 200
FailedToAddResponse(request_id, exc) ==
    JSONResponse([jsonrpc |-> "2.0", id |-> request_id,
                  error |-> [code |-> -32603,
                             message |-> <<"Failed to add lead: ", exc>>]], 200)

AddCrmLead(request_id, tool_args, use, sh, up) ==
    IF ~use
    THEN Returns(JSONResponse([jsonrpc |-> "2.0", id |-> request_id,
                               result |-> TextResult(CannotAddText)], 200),
                 sh, {}, NoCall)
    ELSE IF ~up
    THEN Returns(FailedToAddResponse(request_id, "APIError"), sh, {"open"}, NoCall)
    ELSE IF tool_args.t # "object"
    THEN Returns(FailedToAddResponse(request_id, "AttributeError"), sh, {"open"}, NoCall)
    ELSE Returns(JSONResponse([jsonrpc |-> "2.0", id |-> request_id,
                               result |-> TextResult(LeadAddedText(tool_args.v))], 200),
                 append_row(sh, NewRow(tool_args.v)), {"open", "append_row"}, NoCall)

----------------------------------------------------------------------------
(* tools/call export_crm_leads: lines 466-512 *)

\* key and filter_key of lines 469-478
ExportFilterArgs ==
    << <<"platform", "Platform">>, <<"billingtype", "BillingType">>,
       <<"type", "Type">>, <<"cartrecoverymode", "CartRecoveryMode">>,
       <<"providers", "Providers">> >>

NoExportText == Text("No leads found to export with the specified filters.", 0, <<>>)

\* the CSV preview of line 508 is represented by the number of leads only
ExportedText(leads) == Text("Exported {n} leads to CSV format", Len(leads), <<>>)

\* lines 482-512, r being what get_filtered_data returned or raised
Exported(request_id, filters, sh, r) ==
    IF r.raised THEN Raises("AttributeError", sh, r.calls, CallOf(filters, r))
    ELSE Returns(JSONResponse([jsonrpc |-> "2.0", id |-> request_id,
                               result |-> TextResult(IF r.rows = <<>> THEN NoExportText
                                                     ELSE ExportedText(r.rows))], 200),
                 sh, r.calls, CallOf(filters, r))

ExportLeads(request_id, filters, use, sh, up) ==
    Exported(request_id, filters, sh, get_filtered_data(filters, use, sh, up))

ExportCrmLeads(request_id, tool_args, use, sh, up) ==
    IF tool_args.t # "object" THEN Raises("AttributeError", sh, {}, NoCall)
    ELSE ExportLeads(request_id, BuildFilters(tool_args.v, ExportFilterArgs), use, sh, up)

----------------------------------------------------------------------------
(* The dispatcher: handle_mcp_request, lines 179-546 *)

\* UnknownToolResponse with a fixed message
UnknownToolResponseNoName(request_id, tool_name) ==
    JSONResponse([jsonrpc |-> "2.0", id |-> request_id,
                  error |-> [code |-> -32601, message |-> <<"Unknown tool">>]], 200)

\* lines 514-522
UnknownToolResponse(request_id, tool_name) ==
    JSONResponse([jsonrpc |-> "2.0", id |-> request_id,
                  error |-> [code |-> -32601,
                             message |-> <<"Unknown tool: ", PyStr(tool_name)>>]], 200)

\* lines 524-533
MethodNotFoundResponse(request_id, method) ==
    JSONResponse([jsonrpc |-> "2.0", id |-> request_id,
                  error |-> [code |-> -32601,
                             message |-> <<"Method '", PyStr(method), "' not found">>]], 200)

\* lines 539-546
InternalErrorResponse(request_id, exc) ==
    JSONResponse([jsonrpc |-> "2.0", id |-> request_id,
                  error |-> [code |-> -32603,
                             message |-> <<"Internal server error: ", exc>>]], 500)

\* MethodIs ignoring the case of the first letter
MethodIsAnyCase(method, name) ==
    \/ method = name
    \/ method = "Initialize" /\ name = "initialize"

\* the comparisons  method == "..."  of lines 190, 207, 221 and 342
MethodIs(method, name) == method = name

\* lines 342-522
ToolsCall(request_id, params, use, sh, up) ==
    IF params.t # "object" THEN Raises("AttributeError", sh, {}, NoCall)
    ELSE
    LET tool_name == Get(params.v, "name", None)
        tool_args == Get(params.v, "arguments", Obj(EmptyDict))
    IN  IF tool_name = "get_crm_leads" THEN GetCrmLeads(request_id, tool_args, use, sh, up)
        ELSE IF tool_name = "add_crm_lead" THEN AddCrmLead(request_id, tool_args, use, sh, up)
        ELSE IF tool_name = "export_crm_leads"
             THEN ExportCrmLeads(request_id, tool_args, use, sh, up)
        ELSE Returns(UnknownToolResponse(request_id, tool_name), sh, {}, NoCall)

\* the try block, lines 183-533, once body is a dict
Dispatch(obj, use, sh, up) ==
    LET method == Get(obj, "method", None)
        request_id == Get(obj, "id", None)
        params == Get(obj, "params", Obj(EmptyDict))
    IN  IF MethodIs(method, "initialize")
        THEN Returns(InitializeResponse(request_id), sh, {}, NoCall)
        ELSE IF MethodIs(method, "notifications/initialized")
        THEN Returns(InitializedResponse, sh, {}, NoCall)
        ELSE IF MethodIs(method, "tools/list")
        THEN Returns(ToolsListResponse(request_id), sh, {}, NoCall)
        ELSE IF MethodIs(method, "tools/call")
        THEN ToolsCall(request_id, params, use, sh, up)
        ELSE Returns(MethodNotFoundResponse(request_id, method), sh, {}, NoCall)

\* Boundary answering without the request id
BoundaryWithoutId(request_id, out) ==
    IF out.raised
    THEN Returns(InternalErrorResponse(None, out.exc), out.sheet, out.calls, out.lastCall)
    ELSE out

\* the except clause of lines 535-546 around the outcome of the try block
Boundary(request_id, out) ==
    IF out.raised
    THEN Returns(InternalErrorResponse(request_id, out.exc), out.sheet, out.calls,
                 out.lastCall)
    ELSE out

\* The whole handler.  body.json is "object" for a JSON object, "array" for
\* any other JSON value (body.get raises), "invalid" when request.json()
\* raises; in the last two cases request_id was never assigned (line 541).
handle_mcp_request(b, use, sh, up) ==
    IF b.json # "object"
    THEN Returns(InternalErrorResponse(None, IF b.json = "invalid" THEN "JSONDecodeError"
                                             ELSE "AttributeError"),
                 sh, {}, NoCall)
    ELSE Boundary(Get(b.obj, "id", None), Dispatch(b.obj, use, sh, up))

----------------------------------------------------------------------------
(* Worksheets *)

\* a record as sheet.get_all_records() returns it: one value per column
Lead(team, domain, platform, providers, revenue) ==
    [TagId |-> Num(7), TeamName |-> team, Domain |-> domain, CreatedAt |-> Now,
     Platform |-> platform, Status |-> Str(<<"A", "c", "t", "i", "v", "e">>),
     Providers |-> providers,
     BillingType |-> Str(<<"C", "O", "N", "T", "R", "A", "C", "T">>),
     Type |-> Str(<<"1", "P">>), Contacts |-> EmptyStr, CartRecoveryMode |-> Str(NA),
     Revenue |-> revenue, PotentialRevenue |-> Zero]

LeadShop == Lead(Str(<<"A", "b">>), Str(<<"a", ".", "c">>), Str(<<"S", "P">>),
                 Str(<<"b", ",", "c">>), Num(12))
LeadCart == Lead(Str(<<"B">>), Str(<<"b", ".", "c">>), Str(<<"C">>), EmptyStr, Num(0))
LeadNum == Lead(Num(12), Str(<<"A", "B">>), Str(<<"s", "p">>), Str(<<"C">>), Num(2))

\* records of a worksheet that has only two columns
NarrowA == [TeamName |-> Str(<<"a">>), Platform |-> Str(<<"S", "P">>)]
NarrowB == [TeamName |-> Str(<<"B">>), Platform |-> Num(2)]

SeqsUpTo(S, n) == UNION {[1..k -> S] : k \in 0..n}

NoRequest == [obj |-> EmptyDict, json |-> "none"]

----------------------------------------------------------------------------
(* Requests *)

JsonObject(obj) == [obj |-> obj, json |-> "object"]

IdOpts == {EmptyDict, "id" :> "1"}

\* params of a request whose method does not read them
AnyParams == {EmptyDict, "params" :> Null, "params" :> Obj("name" :> "get_crm_leads")}

OtherMethods ==
    {"ping", "Initialize", "TOOLS/LIST", "tools/call/", "tools", "resources/list", ""}

SP == Str(<<"S", "P">>)
TeamA == Str(<<"a">>)
DomB == Str(<<"b", ".", "c">>)

FullLead == ("teamname" :> TeamA) @@ ("domain" :> DomB) @@ ("platform" :> SP)

\* teamname given, domain empty, platform absent
PartialLead == ("teamname" :> TeamA) @@ ("domain" :> EmptyStr) @@ ("contacts" :> TeamA)

\* arguments of the tools/call requests, per tool
ListArgs ==
    {EmptyDict, "arguments" :> Null}
    \cup {"arguments" :> Obj(a) :
            a \in {EmptyDict,
                   "platform" :> Str(<<"s", "p">>),
                   ("providers" :> Str(<<"C">>)) @@ ("limit" :> Num(1)),
                   "limit" :> Num(0),
                   "limit" :> Str(<<"5">>),
                   "platform" :> Num(5)}}

AddArgs == {"arguments" :> Null, "arguments" :> Obj(FullLead), "arguments" :> Obj(PartialLead)}

ExportArgs ==
    {EmptyDict, "arguments" :> Arr, "arguments" :> Obj("type" :> Str(<<"1">>)),
     "arguments" :> Obj("providers" :> Num(5))}

UnknownToolArgs == {EmptyDict, "arguments" :> Null, "arguments" :> Obj(FullLead)}

UnknownTools == {"unknown_tool", "Get_Crm_Leads", ""}

CallParams(names, args) == {"params" :> Obj(n @@ a) : n \in names, a \in args}

ToolsCallParams ==
    {EmptyDict, "params" :> Null, "params" :> Arr}
    \cup CallParams({"name" :> "get_crm_leads"}, ListArgs)
    \cup CallParams({"name" :> "add_crm_lead"}, AddArgs)
    \cup CallParams({"name" :> "export_crm_leads"}, ExportArgs)
    \cup CallParams({EmptyDict} \cup {"name" :> t : t \in UnknownTools}, UnknownToolArgs)

Requests(methods, params) ==
    {JsonObject(m @@ i @@ q) : m \in methods, i \in IdOpts, q \in params}

----------------------------------------------------------------------------
(* The server *)

MaxSheet == 2

\* POST / with body b while the Sheets API is up or not
Served(b, up, out) ==
    /\ body' = b
    /\ upstream' = up
    /\ response' = out.response
    /\ sheet' = out.sheet
    /\ calls' = out.calls
    /\ lastCall' = out.lastCall
    /\ UNCHANGED USE_GOOGLE_SHEETS

Post(b, up) == Served(b, up, handle_mcp_request(b, USE_GOOGLE_SHEETS, sheet, up))

PostInitialize ==
    \E b \in Requests({"method" :> "initialize"}, AnyParams \cup {"params" :> Arr, "params" :> Obj(EmptyDict)}),
       up \in BOOLEAN :
        Post(b, up)

PostInitialized ==
    \E b \in Requests({"method" :> "notifications/initialized"}, AnyParams) : Post(b, TRUE)

PostToolsList ==
    \E b \in Requests({"method" :> "tools/list"}, AnyParams) : Post(b, TRUE)

PostToolsCall ==
    \E b \in Requests({"method" :> "tools/call"}, ToolsCallParams), up \in BOOLEAN :
        /\ Post(b, up)
        /\ Len(sheet') <= MaxSheet

PostOtherMethod ==
    \E b \in Requests({EmptyDict} \cup {"method" :> m : m \in OtherMethods},
                      {EmptyDict, "params" :> Null}) :
        Post(b, TRUE)

PostMalformed ==
    \E b \in {[obj |-> EmptyDict, json |-> j] : j \in {"array", "invalid"}} : Post(b, TRUE)

Init ==
    /\ USE_GOOGLE_SHEETS \in BOOLEAN
    /\ sheet \in {<<>>, <<LeadShop>>}
    /\ body = NoRequest
    /\ upstream = TRUE
    /\ response = NoResponse
    /\ calls = {}
    /\ lastCall = NoCall

Next ==
    \/ PostInitialize
    \/ PostInitialized
    \/ PostToolsList
    \/ PostToolsCall
    \/ PostOtherMethod
    \/ PostMalformed

Spec == Init /\ [][Next]_vars

----------------------------------------------------------------------------
(* get_filtered_data on its own: the filter applied to bounded inputs *)

MaxFilterRows == 2

\* a filters dict: per key either no entry or one of a few values
FilterSpecs ==
    {p \o v \o t \o d :
        p \in {<<>>} \cup {<< <<"Platform", Str(x)>> >> : x \in {<<>>, <<"s", "P">>, <<"S">>}},
        v \in {<<>>} \cup {<< <<"Providers", Str(x)>> >> : x \in {<<"C">>, <<"b", ",">>}},
        t \in {<<>>} \cup {<< <<"TeamName", Str(x)>> >> : x \in {<<"1">>, <<"b">>}},
        d \in {<<>>} \cup {<< <<"Domain", Str(x)>> >> : x \in {<<"A">>}}}

Called(filters, up, r) ==
    /\ lastCall' = CallOf(filters, r)
    /\ calls' = r.calls
    /\ upstream' = up
    /\ body' = NoRequest
    /\ response' = NoResponse
    /\ UNCHANGED <<USE_GOOGLE_SHEETS, sheet>>

CallGetFilteredData ==
    \E filters \in FilterSpecs, up \in BOOLEAN :
        Called(filters, up, get_filtered_data(filters, USE_GOOGLE_SHEETS, sheet, up))

InitFilter ==
    /\ USE_GOOGLE_SHEETS \in BOOLEAN
    /\ sheet \in SeqsUpTo({LeadShop, LeadCart, LeadNum}, MaxFilterRows)
                 \cup SeqsUpTo({NarrowA, NarrowB}, MaxFilterRows)
    /\ body = NoRequest
    /\ upstream = TRUE
    /\ response = NoResponse
    /\ calls = {}
    /\ lastCall = NoCall

SpecFilter == InitFilter /\ [][CallGetFilteredData]_vars

----------------------------------------------------------------------------
(* tools/call get_crm_leads over long worksheets *)

MaxListRows == 102

\* worksheet lengths around the limits 1, 10 and 100
ListLengths == {n \in 0..MaxListRows : n <= 2 \/ n \in 9..12 \/ n >= 99}

LimitOpts ==
    {EmptyDict} \cup {"limit" :> Num(n) : n \in {-1, 0, 1, 2, 10, 11, 100, 101, 150}}

PostListLeads ==
    \E b \in {JsonObject(("method" :> "tools/call") @@ ("id" :> "1")
                          @@ ("params" :> Obj(("name" :> "get_crm_leads")
                                              @@ ("arguments" :> Obj(("platform" :> Str(<<"s", "p">>)) @@ l))))) :
                l \in LimitOpts},
       up \in BOOLEAN :
        Post(b, up)

InitLimit ==
    /\ USE_GOOGLE_SHEETS \in BOOLEAN
    /\ sheet \in {[i \in 1..n |-> NarrowA] : n \in ListLengths}
    /\ body = NoRequest
    /\ upstream = TRUE
    /\ response = NoResponse
    /\ calls = {}
    /\ lastCall = NoCall

SpecLimit == InitLimit /\ [][PostListLeads]_vars

----------------------------------------------------------------------------
(* tools/call add_crm_lead followed by get_crm_leads, over worksheets that
   already hold records of the added domain *)

MaxPrior == 10

\* how many records the requests of one behaviour add
MaxAdded == 2

\* the worksheet before: records of domain b.c, after one of domain a.c or not
PriorSheets ==
    {h \o [i \in 1..n |-> LeadCart] : h \in {<<>>, <<LeadShop>>}, n \in 0..MaxPrior}

DomainOpts == {"domain" :> EmptyStr, "domain" :> DomB, "domain" :> Str(<<"B", ".", "C">>)}

ListLimitOpts == {EmptyDict} \cup {"limit" :> Num(n) : n \in {0, 1, 11}}

PostAddLead ==
    \E b \in {JsonObject(("method" :> "tools/call") @@ ("id" :> "1")
                          @@ ("params" :> Obj(("name" :> "add_crm_lead") @@ a))) :
                a \in AddArgs},
       up \in BOOLEAN :
        /\ Post(b, up)
        /\ Len(SelectSeq(sheet', LAMBDA r : r.TagId = EmptyStr)) <= MaxAdded

PostListByDomain ==
    \E b \in {JsonObject(("method" :> "tools/call") @@ ("id" :> "1")
                          @@ ("params" :> Obj(("name" :> "get_crm_leads")
                                              @@ ("arguments" :> Obj(d @@ l))))) :
                d \in DomainOpts, l \in ListLimitOpts} :
        Post(b, TRUE)

InitAdd ==
    /\ USE_GOOGLE_SHEETS \in BOOLEAN
    /\ sheet \in PriorSheets
    /\ body = NoRequest
    /\ upstream = TRUE
    /\ response = NoResponse
    /\ calls = {}
    /\ lastCall = NoCall

NextAdd ==
    \/ PostAddLead
    \/ PostListByDomain

SpecAdd == InitAdd /\ [][NextAdd]_vars

----------------------------------------------------------------------------
(* The last request and its response, as the properties read them *)

Range(f) == {f[i] : i \in DOMAIN f}

ReqIsObject == body.json = "object"
ReqMethod == Get(body.obj, "method", None)
ReqId == Get(body.obj, "id", None)
ReqParams == Get(body.obj, "params", Obj(EmptyDict))
IsToolsCall == ReqIsObject /\ ReqMethod = "tools/call" /\ ReqParams.t = "object"
ReqToolName == Get(ReqParams.v, "name", None)
ReqToolArgs == Get(ReqParams.v, "arguments", Obj(EmptyDict))

Content == response.content
IsResult == "result" \in DOMAIN Content /\ "error" \notin DOMAIN Content
IsError(code) ==
    /\ "error" \in DOMAIN Content
    /\ "result" \notin DOMAIN Content
    /\ Content.error.code = code
ResultText == Content.result.content[1].text

CatalogueNames == {ToolCatalogue[i].name : i \in DOMAIN ToolCatalogue}
RequiredOf(name) ==
    UNION {ToolCatalogue[i].required : i \in {j \in DOMAIN ToolCatalogue :
                                                ToolCatalogue[j].name = name}}

----------------------------------------------------------------------------
(* Properties *)

\* C1: a request whose method is notifications/initialized is never
\* answered: the handler writes no response for it.
C1_NotificationNotAnswered ==
    (ReqIsObject /\ ReqMethod = "notifications/initialized") => response = NoResponse

\* C2: a tools/call of add_crm_lead in which a required field of the
\* descriptor is absent or empty is answered with error -32602 naming the
\* missing fields, and no row is appended (stated for the connected
\* worksheet, where the tool body would append).
C2_MissingRequiredRejected ==
    (/\ USE_GOOGLE_SHEETS /\ upstream
     /\ IsToolsCall
     /\ ReqToolName = "add_crm_lead"
     /\ ReqToolArgs.t = "object"
     /\ \E f \in RequiredOf("add_crm_lead") : ~Truthy(Get(ReqToolArgs.v, f, Null)))
    => /\ IsError(-32602)
       /\ \A f \in RequiredOf("add_crm_lead") :
            ~Truthy(Get(ReqToolArgs.v, f, Null)) => f \in Range(Content.error.message)
       /\ "append_row" \notin calls

\* C3: ping is answered with a success envelope and touches no record.
C3_PingAcknowledged ==
    (ReqIsObject /\ ReqMethod = "ping") => (IsResult /\ calls = {})

KnownMethods == {"initialize", "notifications/initialized", "tools/list", "tools/call", "ping"}

\* C4: a method string other than the five method names, compared exactly,
\* is answered with error -32601 whose message carries the method, and
\* with nothing else.
C4_UnknownMethodNotFound ==
    (ReqIsObject /\ ReqMethod # None /\ ReqMethod \notin KnownMethods)
    => /\ IsError(-32601)
       /\ ReqMethod \in Range(Content.error.message)

C4_Witness ==
    /\ ReqIsObject
    /\ ReqMethod = "Initialize"
    /\ ReqParams = Null
    /\ IsError(-32601)

\* C5: a tools/call naming no tool of the catalogue (or no name at all) is
\* answered with error -32601 whose message carries the name, and the
\* worksheet is neither read nor changed.
C5_UnknownToolNotFound ==
    [][(IsToolsCall /\ ReqToolName \notin CatalogueNames)'
        => /\ IsError(-32601)'
           /\ (PyStr(ReqToolName) \in Range(Content.error.message))'
           /\ calls' = {}
           /\ sheet' = sheet]_vars

C5_Witness ==
    /\ IsToolsCall
    /\ ReqToolName = "Get_Crm_Leads"
    /\ USE_GOOGLE_SHEETS
    /\ sheet # <<>>
    /\ IsError(-32601)

\* C6: initialize succeeds whatever params and the connection to the
\* worksheet are, and every time with the same result: the protocol
\* version, the tools capability alone, and the server's name and version.
C6_InitializeAlwaysSucceeds ==
    (ReqIsObject /\ ReqMethod = "initialize")
    => /\ response.status = 200
       /\ IsResult
       /\ Content.result = [protocolVersion |-> "2025-06-18",
                            capabilities |-> [tools |-> EmptyDict],
                            serverInfo |-> [name |-> "crm-mcp-server",
                                            version |-> "7.0.0"]]

C6_Witness ==
    /\ ReqIsObject
    /\ ReqMethod = "initialize"
    /\ ReqParams = Arr
    /\ ~USE_GOOGLE_SHEETS
    /\ ~upstream
    /\ IsResult

\* C7: every response to a request that has an id carries an id field
\* equal to it.
C7_IdEchoed ==
    (response # NoResponse /\ ReqIsObject /\ "id" \in DOMAIN body.obj)
    => /\ "id" \in DOMAIN Content
       /\ Content.id = body.obj.id

\* the declarative filter: every non-empty value, lower-cased, occurs in
\* the lower-cased string of the record's field, a missing field being ""
Satisfies(r, filters) ==
    \A i \in DOMAIN filters :
        LET field == filters[i][1]
            value == filters[i][2].v
        IN  value # <<>> =>
                IsSubstring(lower(value), lower(str(IF field \in DOMAIN r THEN r[field]
                                                    ELSE Str(<<>>))))

\* C8: with the worksheet reachable, get_filtered_data returns exactly
\* the records that satisfy every non-empty filter, in sheet order.
C8_FilterExact ==
    (lastCall.called /\ USE_GOOGLE_SHEETS /\ upstream
        /\ \A i \in DOMAIN lastCall.filters : lastCall.filters[i][2].t = "str")
    => /\ ~lastCall.raised
       /\ lastCall.rows = SelectSeq(sheet, LAMBDA r : Satisfies(r, lastCall.filters))

C8_Witness ==
    /\ lastCall.called /\ USE_GOOGLE_SHEETS /\ upstream
    /\ Len(lastCall.filters) = 3
    /\ lastCall.filters[1] = <<"Platform", Str(<<"s", "P">>)>>
    /\ lastCall.filters[2][1] = "Providers"
    /\ Len(sheet) = 2
    /\ lastCall.rows = <<sheet[2]>>

IsListCall ==
    /\ IsToolsCall
    /\ ReqToolName = "get_crm_leads"
    /\ ReqToolArgs.t = "object"

ReqLimit == Get(ReqToolArgs.v, "limit", Null)

\* C9: the list tool returns at most limit records for limit in 1..100,
\* and at most 10 when limit is absent or not positive.
C9_LimitBounds ==
    (IsListCall /\ IsResult)
    => /\ (ReqLimit.t = "int" /\ ReqLimit.v \in 1..100) => ResultText.count <= ReqLimit.v
       /\ ("limit" \notin DOMAIN ReqToolArgs.v \/ (ReqLimit.t = "int" /\ ReqLimit.v <= 0))
            => ResultText.count <= 10

\* C10: the list tool returns at most 100 records when limit exceeds 100.
C10_LimitClamped ==
    (IsListCall /\ IsResult /\ ReqLimit.t = "int" /\ ReqLimit.v > 100)
    => ResultText.count <= 100

\* the arguments are an object whose limit, if any, is an integer and
\* whose other values are strings
WellFormedArgs ==
    /\ ReqToolArgs.t = "object"
    /\ \A k \in DOMAIN ReqToolArgs.v :
         ReqToolArgs.v[k].t = (IF k = "limit" THEN "int" ELSE "str")

\* the worksheet is not configured, or the Sheets API fails on this request
StoreFails == ~USE_GOOGLE_SHEETS \/ ~upstream

\* C11: a tools/call of get_crm_leads or add_crm_lead made while the
\* worksheet is not configured or the Sheets API fails is answered with
\* status 200 and a result envelope carrying a non-empty text, never with
\* an error envelope.
C11_StoreFailureSoft ==
    (/\ IsToolsCall
     /\ ReqToolName \in {"get_crm_leads", "add_crm_lead"}
     /\ WellFormedArgs
     /\ StoreFails)
    => /\ response.status = 200
       /\ IsResult
       /\ ResultText.msg # ""

\* the last request was an add_crm_lead answered with the success text
AddSucceeded ==
    /\ IsToolsCall
    /\ ReqToolName = "add_crm_lead"
    /\ IsResult
    /\ ResultText.msg = "Lead Added Successfully!"

AddedTeam == Get(ReqToolArgs.v, "teamname", EmptyStr)
AddedDomain == Get(ReqToolArgs.v, "domain", EmptyStr)
AddedPlatform == Get(ReqToolArgs.v, "platform", EmptyStr)

\* the paragraphs of the reply, each as its set of <<field, text>> lines
ListedItems == {Range(ResultText.items[i]) : i \in DOMAIN ResultText.items}

\* the last request was a get_crm_leads filtered by domain alone, served
\* by a reachable worksheet
IsListByDomain ==
    /\ IsListCall
    /\ USE_GOOGLE_SHEETS /\ upstream
    /\ DOMAIN ReqToolArgs.v \subseteq {"domain", "limit"}

ReqDomain == Get(ReqToolArgs.v, "domain", EmptyStr)

\* how many records of the worksheet satisfy the domain filter
MatchCount ==
    Cardinality({i \in DOMAIN sheet : Satisfies(sheet[i], << <<"Domain", ReqDomain>> >>)})

\* the limit in use: the one given, 10 when none is given
LimitInUse == IF "limit" \in DOMAIN ReqToolArgs.v THEN ReqLimit.v ELSE 10

\* a successful add leaves the earlier records in place and puts one record
\* carrying the given teamname, domain and platform after them
OneMoreRecord ==
    AddSucceeded'
    => /\ Len(sheet') = Len(sheet) + 1
       /\ SubSeq(sheet', 1, Len(sheet)) = sheet
       /\ sheet'[Len(sheet')].TeamName = AddedTeam'
       /\ sheet'[Len(sheet')].Domain = AddedDomain'
       /\ sheet'[Len(sheet')].Platform = AddedPlatform'

\* the reply to the list call lists the record the add before it appended
NewRecordListed ==
    /\ IsResult'
    /\ \E item \in ListedItems' :
         {<<"TeamName", str(AddedTeam)>>, <<"Domain", str(AddedDomain)>>} \subseteq item

\* C12 as stated: after a successful add_crm_lead the worksheet holds the
\* earlier records and one more, and a get_crm_leads that follows it,
\* filtered by the added domain and giving no limit, lists the new record
\* whatever the worksheet held before.
C12_AddedThenListed ==
    [][/\ OneMoreRecord
       /\ (/\ AddSucceeded
           /\ IsListByDomain'
           /\ Truthy(AddedDomain)
           /\ ReqDomain' = AddedDomain
           /\ "limit" \notin DOMAIN ReqToolArgs'.v)
          => NewRecordListed]_vars

\* C12, amended: after a successful add_crm_lead the worksheet holds the
\* earlier records and one more, and a get_crm_leads that follows it,
\* filtered by the added domain, lists the new record whenever the records
\* matching the filter are at most the limit in use (the positive limit
\* given, 10 when none is given).
C12_AddedThenListedWithinLimit ==
    [][/\ OneMoreRecord
       /\ (/\ AddSucceeded
           /\ IsListByDomain'
           /\ Truthy(AddedDomain)
           /\ ReqDomain' = AddedDomain
           /\ LimitInUse' > 0
           /\ MatchCount' <= LimitInUse')
          => NewRecordListed]_vars

\* an add onto ten records of the same domain, then the list by that
\* domain with limit 11 showing all eleven
C12_Witness ==
    /\ IsListByDomain
    /\ ReqDomain = DomB
    /\ ReqLimit = Num(11)
    /\ Len(sheet) = 11
    /\ sheet[11].TeamName = TeamA
    /\ IsResult
    /\ ResultText.count = 11
    /\ \E item \in ListedItems : <<"TeamName", str(TeamA)>> \in item

\* the last request was a well-formed get_crm_leads whose filters no record
\* passed
ListMatchedNone ==
    /\ IsListCall
    /\ WellFormedArgs
    /\ lastCall.called
    /\ lastCall.rows = <<>>

\* the reply is a result whose text is the one literal of no records found
RepliesNoLeadsLiteral ==
    /\ IsResult
    /\ ResultText.msg = "No leads found matching the specified criteria. Please ensure the Google Sheets connection is configured and contains data."
    /\ ResultText.items = <<>>

\* C13 as stated: a get_crm_leads that matches no record is answered, in
\* every state, with a result whose text is the same non-empty literal of
\* no records found.
C13_NoLeadsLiteral == ListMatchedNone => RepliesNoLeadsLiteral

\* C13, amended: with the worksheet configured, a get_crm_leads that
\* matches no record is answered with a result whose text is the same
\* non-empty literal of no records found.
C13_NoLeadsLiteralWhenConfigured ==
    (USE_GOOGLE_SHEETS /\ ListMatchedNone) => RepliesNoLeadsLiteral

\* a filter by providers that the one record of the worksheet does not pass
C13_Witness ==
    /\ USE_GOOGLE_SHEETS /\ upstream
    /\ ListMatchedNone
    /\ sheet # <<>>
    /\ lastCall.filters # <<>>
    /\ RepliesNoLeadsLiteral

\* the last request made the handler raise: the body is no JSON or no JSON
\* object, params or the arguments of a tool are no object, limit is a
\* non-empty non-integer, or a filter value is no string
RaisedWhileDispatching ==
    \/ body.json \in {"array", "invalid"}
    \/ ReqIsObject /\ ReqMethod = "tools/call" /\ ReqParams.t # "object"
    \/ /\ IsToolsCall
       /\ ReqToolName \in {"get_crm_leads", "export_crm_leads"}
       /\ ReqToolArgs.t # "object"
    \/ /\ IsToolsCall
       /\ ReqToolName = "add_crm_lead"
       /\ USE_GOOGLE_SHEETS
       /\ ReqToolArgs.t # "object"
    \/ IsListCall /\ Truthy(ReqLimit) /\ ReqLimit.t # "int"
    \/ lastCall.called /\ lastCall.raised

\* C14: a request that makes the handler raise is answered with an error
\* envelope of code -32603 whose id is the request's id when the body was a
\* JSON object (null when it has none) and null otherwise, and leaves the
\* worksheet and the connection as they were.
C14_ExceptionsAnswered ==
    [][RaisedWhileDispatching'
        => /\ IsError(-32603)'
           /\ "id" \in DOMAIN Content'
           /\ Content'.id = (IF ReqIsObject' THEN ReqId' ELSE None)
           /\ sheet' = sheet
           /\ USE_GOOGLE_SHEETS' = USE_GOOGLE_SHEETS]_vars

\* a get_crm_leads with id "1" and limit "5" answered with -32603 and id "1"
\* over a worksheet that holds a record
C14_Witness ==
    /\ IsListCall
    /\ ReqLimit = Str(<<"5">>)
    /\ ReqId = "1"
    /\ sheet # <<>>
    /\ response.status = 500
    /\ IsError(-32603)
    /\ Content.id = "1"

ListedTools == {Content.result.tools[i].name : i \in DOMAIN Content.result.tools}

\* the reply is the -32601 error of an unknown tool
IsUnknownToolError ==
    /\ IsError(-32601)
    /\ Content.error.message[1] = "Unknown tool: "

\* C15: whatever requests came before, tools/list returns exactly
\* get_crm_leads, add_crm_lead and export_crm_leads, and a tools/call is
\* answered with the unknown-tool error -32601 exactly when its name is
\* none of these three.
C15_CatalogueMatchesDispatcher ==
    /\ (ReqIsObject /\ ReqMethod = "tools/list")
       => /\ IsResult
          /\ ListedTools = {"get_crm_leads", "add_crm_lead", "export_crm_leads"}
    /\ IsToolsCall
       => (ReqToolName \in {"get_crm_leads", "add_crm_lead", "export_crm_leads"}
           <=> ~IsUnknownToolError)

\* the third tool of the catalogue called and served
C15_Witness ==
    /\ IsToolsCall
    /\ ReqToolName = "export_crm_leads"
    /\ ReqToolArgs.t = "object"
    /\ IsResult
    /\ lastCall.called

====
